---- MODULE Spec2Model ----
(***************************************************************************)
(* Steady incompressible Navier-Stokes simulation class of                 *)
(* sapphire/simulations/navier_stokes.py: construction on a Taylor-Hood    *)
(* space, the weak-form residual, the strong residual, the pressure null   *)
(* space and the mean-pressure step of solve().                            *)
(*                                                                         *)
(* Numbers are exact rationals <<numerator, denominator>>; the rounding of *)
(* Python floats is not modelled.  Meshes are periodic nx x ny grids with  *)
(* spacings hx, hy; a field is given by its nodal values, a derivative is  *)
(* the central difference and the integral over the domain (dx) is the     *)
(* sum of nodal values weighted with hx*hy.  On a periodic grid the        *)
(* central difference is skew-adjoint, so integration by parts holds with  *)
(* no boundary term, as on a domain whose boundary terms vanish.           *)
(***************************************************************************)
EXTENDS Integers, Sequences, FiniteSets, TLC

(***************************************************************************)
(* Bounds of the model.                                                    *)
(***************************************************************************)
MaxRe == 2
MaxDegree == 2
MaxVal == 1
MaxAmplitude == 2

(***************************************************************************)
(* Exact rational arithmetic.                                              *)
(***************************************************************************)
Abs(n) == IF n < 0 THEN -n ELSE n

RECURSIVE GCD(_, _)
GCD(a, b) == IF b = 0 THEN a ELSE GCD(b, a % b)

Norm(n, d) ==
    LET s == IF d < 0 THEN -1 ELSE 1
        g == GCD(Abs(n), Abs(d))
    IN  <<(s * n) \div g, (s * d) \div g>>

R(n) == <<n, 1>>
Q(n, d) == Norm(n, d)
RAdd(a, b) ==
    IF a[2] = b[2] THEN (IF a[2] = 1 THEN <<a[1] + b[1], 1>> ELSE Norm(a[1] + b[1], a[2]))
    ELSE Norm(a[1] * b[2] + b[1] * a[2], a[2] * b[2])
RNeg(a) == <<-a[1], a[2]>>
RSub(a, b) == RAdd(a, RNeg(b))
RMul(a, b) ==
    IF a[1] = 0 \/ b[1] = 0 THEN <<0, 1>>
    ELSE IF a[2] = 1 /\ b[2] = 1 THEN <<a[1] * b[1], 1>>
    ELSE Norm(a[1] * b[1], a[2] * b[2])
RDiv(a, b) == Norm(a[1] * b[2], a[2] * b[1])

(***************************************************************************)
(* Tensors at a point: a scalar is <<a>>, a vector <<a1, a2>>, a matrix    *)
(* <<a11, a12, a21, a22>> (row major); the geometric dimension is 2.       *)
(***************************************************************************)
TAdd(a, b) ==
    IF Len(a) = 1 THEN <<RAdd(a[1], b[1])>>
    ELSE IF Len(a) = 2 THEN <<RAdd(a[1], b[1]), RAdd(a[2], b[2])>>
    ELSE <<RAdd(a[1], b[1]), RAdd(a[2], b[2]), RAdd(a[3], b[3]), RAdd(a[4], b[4])>>
TScale(c, a) ==
    IF Len(a) = 1 THEN <<RMul(c, a[1])>>
    ELSE IF Len(a) = 2 THEN <<RMul(c, a[1]), RMul(c, a[2])>>
    ELSE <<RMul(c, a[1]), RMul(c, a[2]), RMul(c, a[3]), RMul(c, a[4])>>
TSub(a, b) == TAdd(a, TScale(R(-1), b))
TMatVec(A, v) ==
    <<RAdd(RMul(A[1], v[1]), RMul(A[2], v[2])),
      RAdd(RMul(A[3], v[1]), RMul(A[4], v[2]))>>
TMul(a, b) ==
    IF Len(a) = 1 THEN TScale(a[1], b)
    ELSE IF Len(b) = 1 THEN TScale(b[1], a)
    ELSE TMatVec(a, b)
TInner(a, b) ==
    IF Len(a) = 1 THEN <<RMul(a[1], b[1])>>
    ELSE IF Len(a) = 2 THEN <<RAdd(RMul(a[1], b[1]), RMul(a[2], b[2]))>>
    ELSE <<RAdd(RAdd(RMul(a[1], b[1]), RMul(a[2], b[2])),
                RAdd(RMul(a[3], b[3]), RMul(a[4], b[4])))>>
TSym(A) ==
    LET o == RMul(Q(1, 2), RAdd(A[2], A[3]))
    IN  <<A[1], o, o, A[4]>>

(***************************************************************************)
(* Meshes: periodic grids of nx x ny nodes, numbered 1..nx*ny row by row.  *)
(***************************************************************************)
Mesh(nx, ny, hx, hy) == [nx |-> nx, ny |-> ny, hx |-> hx, hy |-> hy]
NumNodes(mesh) == mesh.nx * mesh.ny
Nodes(mesh) == 1..NumNodes(mesh)
Col(mesh, k) == (k - 1) % mesh.nx
Row(mesh, k) == (k - 1) \div mesh.nx
NodeAt(mesh, c, r) == r * mesh.nx + c + 1
Weight(mesh) == RMul(mesh.hx, mesh.hy)
Measure(mesh) == RMul(R(NumNodes(mesh)), Weight(mesh))
ufl_cell(mesh) == "quadrilateral"
East(mesh, k) == NodeAt(mesh, (Col(mesh, k) + 1) % mesh.nx, Row(mesh, k))
West(mesh, k) == NodeAt(mesh, (Col(mesh, k) + mesh.nx - 1) % mesh.nx, Row(mesh, k))
North(mesh, k) == NodeAt(mesh, Col(mesh, k), (Row(mesh, k) + 1) % mesh.ny)
South(mesh, k) == NodeAt(mesh, Col(mesh, k), (Row(mesh, k) + mesh.ny - 1) % mesh.ny)

(***************************************************************************)
(* UFL expressions: a tree of nodes [op, args].  The constructors below    *)
(* are the names bound from firedrake at the top of the module.            *)
(***************************************************************************)
Node(op, args) == [op |-> op, args |-> args]
Leaf(name) == Node(name, <<>>)
inner(a, b) == Node("inner", <<a, b>>)
dot(a, b) == Node("dot", <<a, b>>)
grad(a) == Node("grad", <<a>>)
div(a) == Node("div", <<a>>)
sym(a) == Node("sym", <<a>>)
Mul(a, b) == Node("mul", <<a, b>>)
Add(a, b) == Node("add", <<a, b>>)
Sub(a, b) == Node("sub", <<a, b>>)
TrueDiv(a, b) == Node("truediv", <<a, b>>)
Float2 == Leaf("2.")

(***************************************************************************)
(* A form is a sequence of integrals; expr*dx is one integral over the     *)
(* interior of the domain, and the sum of two forms has the integrals of   *)
(* both.                                                                   *)
(***************************************************************************)
Integral(e, measure) == <<[integrand |-> e, measure |-> measure]>>
FormAdd(f, g) == f \o g

(***************************************************************************)
(* The value of an expression on the mesh: the sequence of its values at   *)
(* the nodes.  env gives the mesh, the value of the Reynolds number and    *)
(* the nodal values of the solution fields and of the test functions.      *)
(***************************************************************************)
(* The value at node k of the operation op applied to the fields a and b.  *)
Pointwise(op, a, b, m, k) ==
    LET ddx == TScale(RDiv(R(1), RMul(R(2), m.hx)), TSub(a[East(m, k)], a[West(m, k)]))
        ddy == TScale(RDiv(R(1), RMul(R(2), m.hy)), TSub(a[North(m, k)], a[South(m, k)]))
    IN  CASE op = "mul" -> TMul(a[k], b[k])
          [] op = "add" -> TAdd(a[k], b[k])
          [] op = "sub" -> TSub(a[k], b[k])
          [] op = "truediv" -> <<RDiv(a[k][1], b[k][1])>>
          [] op \in {"dot", "inner"} -> TInner(a[k], b[k])
          [] op = "sym" -> TSym(a[k])
          [] op = "grad" ->
                IF Len(a[k]) = 1 THEN <<ddx[1], ddy[1]>>
                ELSE <<ddx[1], ddy[1], ddx[2], ddy[2]>>
          [] op = "div" ->
                IF Len(a[k]) = 2 THEN <<RAdd(ddx[1], ddy[2])>>
                ELSE <<RAdd(ddx[1], ddy[2]), RAdd(ddx[3], ddy[4])>>

RECURSIVE FieldOf(_, _, _, _, _)
FieldOf(op, a, b, m, n) ==
    IF n = 0 THEN <<>>
    ELSE Append(FieldOf(op, a, b, m, n - 1), Pointwise(op, a, b, m, n))

RECURSIVE ConstantField(_, _)
ConstantField(v, n) ==
    IF n = 0 THEN <<>> ELSE Append(ConstantField(v, n - 1), v)

RECURSIVE Eval(_, _)
Eval(e, env) ==
    LET n == NumNodes(env.mesh)
    IN  CASE e.op = "p" -> env.p
          [] e.op = "u" -> env.u
          [] e.op = "psi_p" -> env.psi_p
          [] e.op = "psi_u" -> env.psi_u
          [] e.op = "Re" -> ConstantField(<<env.Re>>, n)
          [] e.op = "2." -> ConstantField(<<R(2)>>, n)
          [] Len(e.args) = 1 ->
                FieldOf(e.op, Eval(e.args[1], env), <<>>, env.mesh, n)
          [] Len(e.args) = 2 ->
                FieldOf(e.op, Eval(e.args[1], env), Eval(e.args[2], env), env.mesh, n)

RECURSIVE SumField(_, _)
SumField(f, n) ==
    IF n = 0 THEN R(0) ELSE RAdd(SumField(f, n - 1), f[n][1])

(* fe.assemble of a form whose integrands are scalar: interior integrals   *)
(* are weighted nodal sums; a periodic mesh has no exterior boundary.      *)
AssembleIntegral(I, env) ==
    IF I.measure = "dx"
    THEN RMul(Weight(env.mesh),
              SumField(Eval(I.integrand, env), NumNodes(env.mesh)))
    ELSE R(0)

RECURSIVE AssembleFrom(_, _, _)
AssembleFrom(form, env, k) ==
    IF k = 0 THEN R(0)
    ELSE RAdd(AssembleFrom(form, env, k - 1), AssembleIntegral(form[k], env))
assemble(form, env) == AssembleFrom(form, env, Len(form))

(***************************************************************************)
(* Finite elements, function spaces and functions.                         *)
(***************************************************************************)
FiniteElement(family, cell, degree) ==
    [family |-> family, cell |-> cell, degree |-> degree, rank |-> 0]
VectorElement(family, cell, degree) ==
    [family |-> family, cell |-> cell, degree |-> degree, rank |-> 1]
MixedElement(e1, e2) == <<e1, e2>>
FunctionSpace(mesh, element) == [mesh |-> mesh, element |-> element]
(* fe.Function(V): the zero function of V; p and u are the nodal values of *)
(* its first and second component.                                         *)
Function(V) ==
    [space |-> V,
     p |-> [x \in Nodes(V.mesh) |-> <<R(0)>>],
     u |-> [x \in Nodes(V.mesh) |-> <<R(0), R(0)>>]]
WithValues(f, p, u) == [f EXCEPT !.p = p, !.u = u]

(* Variant: the same degree for pressure and velocity.                     *)
EqualOrderElement(mesh, d) ==
    MixedElement(
        FiniteElement("P", ufl_cell(mesh), d),
        VectorElement("P", ufl_cell(mesh), d))

(* Lines 34-36: the mixed element built from the pressure degree d.        *)
TaylorHoodElement(mesh, d) ==
    MixedElement(
        FiniteElement("P", ufl_cell(mesh), d),
        VectorElement("P", ufl_cell(mesh), d + 1))

(***************************************************************************)
(* Inputs.                                                                 *)
(***************************************************************************)
UnitMesh2 == Mesh(2, 1, Q(1, 2), R(1))
WideMesh2 == Mesh(2, 1, R(1), R(1))
SmallMesh2 == Mesh(2, 1, Q(1, 2), Q(1, 2))
UnitMesh3 == Mesh(3, 1, Q(1, 3), R(1))
WideMesh3 == Mesh(3, 1, R(1), Q(1, 2))
TallMesh3 == Mesh(1, 3, Q(1, 2), R(1))
ReynoldsNumbers == {R(n) : n \in 1..MaxRe}
Degrees == 1..MaxDegree
Some(v) == <<v>>
None == <<>>
IsSome(o) == Len(o) = 1
IsNone(o) == Len(o) = 0
Get(o) == o[1]
(* Functions a caller may pass as "solution": any mixed space is accepted. *)
GivenSolutions ==
    {Function(FunctionSpace(UnitMesh2, TaylorHoodElement(UnitMesh2, 1))),
     Function(FunctionSpace(WideMesh3,
        MixedElement(VectorElement("P", ufl_cell(WideMesh3), 2),
                     FiniteElement("P", ufl_cell(WideMesh3), 2))))}
Kwargs(solution, mesh, time) ==
    [solution |-> solution, mesh |-> mesh, time |-> time]
OptionOf(S) == {None} \cup {Some(v) : v \in S}
KwargsSet ==
    {Kwargs(s, m, t) : s \in OptionOf(GivenSolutions),
                       m \in OptionOf({UnitMesh2, WideMesh3}),
                       t \in OptionOf({0})}

VARIABLES
    pc,               \* position in __init__ / solve, or what was evaluated
    call,             \* the arguments of the constructor call
    kwargs,           \* the keyword dictionary inside __init__
    mesh,             \* local of __init__ (line 28)
    element,          \* local of __init__ (line 34)
    reynolds_number,  \* self.reynolds_number
    base_kwargs,      \* the keywords super().__init__ was called with
    solution,         \* self.solution
    base_solves,      \* calls of super().solve() in the current solve()
    solved,           \* the result of super().solve() (line 69)
    mean_pressure,    \* local of solve (line 75)
    returned,         \* the value solve() returned
    residual,         \* the form weak_form_residual() returned
    strong,           \* the pair strong_residual() returned
    basis             \* the basis nullspace() returned

vars == <<pc, call, kwargs, mesh, element, reynolds_number, base_kwargs,
          solution, base_solves, solved, mean_pressure, returned,
          residual, strong, basis>>
initVars == <<call, kwargs, mesh, element, reynolds_number, base_kwargs, solution>>
solveVars == <<base_solves, solved, mean_pressure, returned>>
formVars == <<residual, strong, basis>>

(***************************************************************************)
(* Simulation.__init__, line by line.                                      *)
(***************************************************************************)
(* The call: reynolds_number is required, the degree defaults to 1.        *)
Init ==
    /\ pc = "l26"
    /\ call \in [reynolds_number : ReynoldsNumbers,
                 taylor_hood_pressure_element_degree : OptionOf(Degrees),
                 kwargs : KwargsSet]
    /\ kwargs = call.kwargs
    /\ mesh = None /\ element = None
    /\ reynolds_number = None /\ base_kwargs = None /\ solution = None
    /\ base_solves = 0 /\ solved = None /\ mean_pressure = None /\ returned = None
    /\ residual = None /\ strong = None /\ basis = None

DegreeArg(c) ==
    IF IsSome(c.taylor_hood_pressure_element_degree)
    THEN Get(c.taylor_hood_pressure_element_degree)
    ELSE 1

(* Line 26: if "solution" not in kwargs.                                   *)
InitTest ==
    /\ pc = "l26"
    /\ pc' = IF IsNone(kwargs.solution) THEN "l28" ELSE "l40"
    /\ UNCHANGED <<initVars, solveVars, formVars>>

(* Line 28: mesh = kwargs["mesh"]; a missing key raises KeyError.          *)
InitGetMesh ==
    /\ pc = "l28"
    /\ IF IsSome(kwargs.mesh)
       THEN /\ mesh' = kwargs.mesh
            /\ pc' = "l30"
       ELSE /\ mesh' = mesh
            /\ pc' = "KeyError"
    /\ UNCHANGED <<call, kwargs, element, reynolds_number, base_kwargs, solution,
                   solveVars, formVars>>

(* Variant: "mesh" is left in the keywords.                                *)
InitKeepMesh ==
    /\ pc = "l30"
    /\ pc' = "l32"
    /\ UNCHANGED <<initVars, solveVars, formVars>>

(* Line 30: del kwargs["mesh"].                                            *)
InitDelMesh ==
    /\ pc = "l30"
    /\ kwargs' = [kwargs EXCEPT !.mesh = None]
    /\ pc' = "l32"
    /\ UNCHANGED <<call, mesh, element, reynolds_number, base_kwargs, solution,
                   solveVars, formVars>>

(* Lines 32-38: the element and the new solution.                          *)
InitBuildSolution ==
    /\ pc = "l32"
    /\ LET d == DegreeArg(call)
           el == TaylorHoodElement(Get(mesh), d)
       IN  /\ element' = Some(el)
           /\ kwargs' = [kwargs EXCEPT
                  !.solution = Some(Function(FunctionSpace(Get(mesh), el)))]
    /\ pc' = "l40"
    /\ UNCHANGED <<call, mesh, reynolds_number, base_kwargs, solution,
                   solveVars, formVars>>

(* Line 40: self.reynolds_number = fe.Constant(reynolds_number).           *)
InitSetReynolds ==
    /\ pc = "l40"
    /\ reynolds_number' = Some(call.reynolds_number)
    /\ pc' = "l42"
    /\ UNCHANGED <<call, kwargs, mesh, element, base_kwargs, solution,
                   solveVars, formVars>>

(* The base constructor keeps the function passed as "solution".           *)
BaseInit(kw) == kw.solution

(* Line 42: the call of the base constructor with the keywords.           *)
InitSuper ==
    /\ pc = "l42"
    /\ base_kwargs' = Some(kwargs)
    /\ solution' = BaseInit(kwargs)
    /\ pc' = "ready"
    /\ UNCHANGED <<call, kwargs, mesh, element, reynolds_number,
                   solveVars, formVars>>

Next ==
    \/ InitTest
    \/ InitGetMesh
    \/ InitDelMesh
    \/ InitBuildSolution
    \/ InitSetReynolds
    \/ InitSuper

Spec == Init /\ [][Next]_vars

(***************************************************************************)
(* What the base class provides to the methods below.                      *)
(***************************************************************************)
(* The state of an instance that __init__ built from a mesh keyword.       *)
Constructed(c) ==
    LET m == Get(c.kwargs.mesh)
        el == TaylorHoodElement(m, DegreeArg(c))
        f == Function(FunctionSpace(m, el))
        kw == [c.kwargs EXCEPT !.mesh = None, !.solution = Some(f)]
    IN  [kwargs |-> kw, mesh |-> Some(m), element |-> Some(el),
         reynolds_number |-> Some(c.reynolds_number),
         base_kwargs |-> Some(kw), solution |-> BaseInit(kw)]
(* Every construction from a mesh keyword ends in that state.              *)
InitLeavesConstructed ==
    (pc = "ready" /\ IsNone(call.kwargs.solution)) =>
        /\ kwargs = Constructed(call).kwargs
        /\ mesh = Constructed(call).mesh
        /\ element = Constructed(call).element
        /\ reynolds_number = Constructed(call).reynolds_number
        /\ base_kwargs = Constructed(call).base_kwargs
        /\ solution = Constructed(call).solution
(* The fields of the solution and the test functions, by field name.       *)
solution_fields == [p |-> Leaf("p"), u |-> Leaf("u")]
test_functions == [p |-> Leaf("psi_p"), u |-> Leaf("psi_u")]
dx == "dx"
(* The pressure function that shares its values with the solution.         *)
post_processing_solution_fields == [p |-> Leaf("p"), u |-> Leaf("u")]
(* Evaluation environments of a simulation.                                *)
ZeroScalar(m) == [x \in Nodes(m) |-> <<R(0)>>]
ZeroVector(m) == [x \in Nodes(m) |-> <<R(0), R(0)>>]
Env(sol, Re, psi_p, psi_u) ==
    [mesh |-> sol.space.mesh, Re |-> Re, p |-> sol.p, u |-> sol.u,
     psi_p |-> psi_p, psi_u |-> psi_u]
FieldEnv(sol) ==
    Env(sol, R(1), ZeroScalar(sol.space.mesh), ZeroVector(sol.space.mesh))

(***************************************************************************)
(* Simulation.solve, line by line.                                         *)
(***************************************************************************)
SolveMeshes == {UnitMesh2, WideMesh2, SmallMesh2}
PValues == {R(n) : n \in (-MaxVal)..MaxVal}
UValues == {R(n) : n \in 0..MaxVal}
ScalarFields(m, V) == [Nodes(m) -> {<<v>> : v \in V}]
VectorFields(m, V) == [Nodes(m) -> {<<v, w>> : v \in V, w \in V}]

(* An instance constructed on one of the meshes; its solution is still the *)
(* zero function or holds an initial guess.                                *)
InitialGuesses(m) ==
    {[x \in Nodes(m) |-> <<R(0)>>], [x \in Nodes(m) |-> <<R(1)>>]}

SolveInit ==
    /\ pc = "ready"
    /\ call \in [reynolds_number : ReynoldsNumbers,
                 taylor_hood_pressure_element_degree : {None},
                 kwargs : {Kwargs(None, Some(m), None) : m \in SolveMeshes}]
    /\ kwargs = Constructed(call).kwargs
    /\ mesh = Constructed(call).mesh
    /\ element = Constructed(call).element
    /\ reynolds_number = Constructed(call).reynolds_number
    /\ base_kwargs = Constructed(call).base_kwargs
    /\ \E g \in InitialGuesses(Get(call.kwargs.mesh)) :
          solution = Some([Get(Constructed(call).solution) EXCEPT !.p = g])
    /\ base_solves = 0 /\ solved = None /\ mean_pressure = None /\ returned = None
    /\ residual = None /\ strong = None /\ basis = None

(* solve() is entered.                                                      *)
SolveCall ==
    /\ pc = "ready"
    /\ pc' = "l69"
    /\ base_solves' = 0
    /\ solved' = None /\ mean_pressure' = None /\ returned' = None
    /\ UNCHANGED <<initVars, formVars>>

(* The base solver writes the solution it found into the solution          *)
(* function and returns that function.                                     *)
BaseSolve(sol, p, u) == WithValues(sol, p, u)

(* Line 69: self.solution = super().solve().                               *)
SolveSuper ==
    /\ pc = "l69"
    /\ \E p \in ScalarFields(Get(mesh), PValues), u \in VectorFields(Get(mesh), UValues) :
          /\ solution' = Some(BaseSolve(Get(solution), p, u))
          /\ solved' = solution'
    /\ base_solves' = base_solves + 1
    /\ pc' = "l73"
    /\ UNCHANGED <<call, kwargs, mesh, element, reynolds_number, base_kwargs,
                   mean_pressure, returned, formVars>>

(* Lines 73-75: mean_pressure = fe.assemble(p*self.dx).                    *)
MeanPressure(sol) ==
    LET p == post_processing_solution_fields["p"]
    IN  assemble(Integral(p, dx), FieldEnv(sol))

SolveMean ==
    /\ pc = "l73"
    /\ mean_pressure' = Some(MeanPressure(Get(solution)))
    /\ pc' = "l77"
    /\ UNCHANGED <<initVars, base_solves, solved, returned, formVars>>

(* Variant: the difference is bound to the local name only.                *)
RebindPressure(sol, c) == sol
(* Variant: the value is subtracted from every component of the solution.  *)
AssignSolution(sol, c) ==
    [sol EXCEPT
        !.p = [x \in Nodes(sol.space.mesh) |-> <<RSub(sol.p[x][1], c)>>],
        !.u = [x \in Nodes(sol.space.mesh) |->
                  <<RSub(sol.u[x][1], c), RSub(sol.u[x][2], c)>>]]

(* Line 77: p.assign(p - mean_pressure) on the pressure of the solution.   *)
AssignPressure(sol, c) ==
    [sol EXCEPT !.p = [x \in Nodes(sol.space.mesh) |-> <<RSub(sol.p[x][1], c)>>]]

SolveAssign ==
    /\ pc = "l77"
    /\ solution' = Some(AssignPressure(Get(solution), Get(mean_pressure)))
    /\ pc' = "l81"
    /\ UNCHANGED <<call, kwargs, mesh, element, reynolds_number, base_kwargs,
                   solveVars, formVars>>

(* Line 81: return self.solution.                                          *)
SolveReturn ==
    /\ pc = "l81"
    /\ returned' = solution
    /\ pc' = "returned"
    /\ UNCHANGED <<initVars, base_solves, solved, mean_pressure, formVars>>

SolveNext ==
    \/ SolveCall
    \/ SolveSuper
    \/ SolveMean
    \/ SolveAssign
    \/ SolveReturn

SpecSolve == SolveInit /\ [][SolveNext]_vars

(***************************************************************************)
(* The weak form, the strong residual and the null space.                  *)
(***************************************************************************)
(* Lines 44-50.                                                            *)
mass ==
    LET u == solution_fields["u"]
        psi_p == test_functions["p"]
    IN  Integral(Mul(psi_p, div(u)), dx)

(* Variant: the viscous term with the plain gradients.                     *)
momentum_plain_gradient ==
    LET p == solution_fields["p"]
        u == solution_fields["u"]
        Re == Leaf("Re")
        psi_u == test_functions["u"]
    IN  Integral(
            Add(Sub(dot(psi_u, Mul(grad(u), u)), Mul(div(psi_u), p)),
                Mul(TrueDiv(Float2, Re), inner(grad(psi_u), grad(u)))),
            dx)
(* Variant: with an integral over the exterior boundary.                   *)
momentum_boundary_term ==
    LET p == solution_fields["p"]
        u == solution_fields["u"]
        Re == Leaf("Re")
        psi_u == test_functions["u"]
    IN  FormAdd(
            Integral(
                Add(Sub(dot(psi_u, Mul(grad(u), u)), Mul(div(psi_u), p)),
                    Mul(TrueDiv(Float2, Re), inner(sym(grad(psi_u)), sym(grad(u))))),
                dx),
            Integral(Mul(p, div(psi_u)), "ds"))

(* Lines 52-61; Re is the constant self.reynolds_number.                   *)
momentum ==
    LET p == solution_fields["p"]
        u == solution_fields["u"]
        Re == Leaf("Re")
        psi_u == test_functions["u"]
    IN  Integral(
            Add(Sub(dot(psi_u, Mul(grad(u), u)), Mul(div(psi_u), p)),
                Mul(TrueDiv(Float2, Re), inner(sym(grad(psi_u)), sym(grad(u))))),
            dx)

(* Lines 63-65.                                                            *)
weak_form_residual == FormAdd(mass, momentum)

(* Variant: the pressure gradient with the sign it has in the weak form.   *)
strong_residual_minus_grad_p(sim, sol) ==
    LET p == sol[1]
        u == sol[2]
        Re == sim.reynolds_number
        r_p == div(u)
        r_u == Sub(Sub(Mul(grad(u), u), grad(p)),
                   Mul(TrueDiv(Float2, Re), div(sym(grad(u)))))
    IN  <<r_p, r_u>>
(* Variant: the viscous term as the Laplacian of the velocity.             *)
strong_residual_laplacian(sim, sol) ==
    LET p == sol[1]
        u == sol[2]
        Re == sim.reynolds_number
        r_p == div(u)
        r_u == Sub(Add(Mul(grad(u), u), grad(p)),
                   Mul(TrueDiv(Float2, Re), div(grad(u))))
    IN  <<r_p, r_u>>

(* Lines 94-104; sol is the pair the caller passes as solution.            *)
strong_residual(sim, sol) ==
    LET p == sol[1]
        u == sol[2]
        Re == sim.reynolds_number
        r_p == div(u)
        r_u == Sub(Add(Mul(grad(u), u), grad(p)),
                   Mul(TrueDiv(Float2, Re), div(sym(grad(u)))))
    IN  <<r_p, r_u>>

(* The sub-spaces of the solution space, by field name.                    *)
solution_subspaces ==
    [p |-> [kind |-> "subspace", index |-> 1, constant |-> FALSE],
     u |-> [kind |-> "subspace", index |-> 2, constant |-> FALSE]]
VectorSpaceBasis(constant) ==
    [kind |-> "basis", index |-> 0, constant |-> constant]
MixedVectorSpaceBasis(V, bases) == [space |-> V, bases |-> bases]

(* Variant: the entries of the basis tuple in the other order.             *)
nullspace_swapped(sol) ==
    MixedVectorSpaceBasis(
        sol.space,
        <<solution_subspaces["p"], VectorSpaceBasis(TRUE)>>)

(* Lines 83-91.                                                            *)
nullspace(sol) ==
    MixedVectorSpaceBasis(
        sol.space,
        <<VectorSpaceBasis(TRUE), solution_subspaces["u"]>>)

FormMeshes == {UnitMesh3, TallMesh3}
(* Nodal values: natural numbers whose sum over the nodes is bounded.      *)
RECURSIVE Amplitude(_, _)
Amplitude(f, n) ==
    IF n = 0 THEN 0
    ELSE Amplitude(f, n - 1) +
         (IF Len(f[n]) = 1 THEN f[n][1][1] ELSE f[n][1][1] + f[n][2][1])
FormValues == {R(n) : n \in 0..MaxAmplitude}

(* An instance constructed on one of the meshes whose solution holds any   *)
(* of the nodal values.                                                    *)
FormInit ==
    /\ pc = "ready"
    /\ call \in [reynolds_number : ReynoldsNumbers,
                 taylor_hood_pressure_element_degree : {None},
                 kwargs : {Kwargs(None, Some(m), None) : m \in FormMeshes}]
    /\ kwargs = Constructed(call).kwargs
    /\ mesh = Constructed(call).mesh
    /\ element = Constructed(call).element
    /\ reynolds_number = Constructed(call).reynolds_number
    /\ base_kwargs = Constructed(call).base_kwargs
    /\ LET m == Get(call.kwargs.mesh)
           n == NumNodes(m)
       IN  \E p \in {f \in ScalarFields(m, FormValues) : Amplitude(f, n) <= MaxAmplitude} :
           \E u \in {f \in VectorFields(m, FormValues) :
                        Amplitude(f, n) <= MaxAmplitude - Amplitude(p, n)} :
              solution = Some(WithValues(Get(Constructed(call).solution), p, u))
    /\ base_solves = 0 /\ solved = None /\ mean_pressure = None /\ returned = None
    /\ residual = None /\ strong = None /\ basis = None

(* Each behaviour evaluates one of the two on the instance.                *)
WeakFormResidual ==
    /\ pc = "ready"
    /\ residual' = Some(weak_form_residual)
    /\ pc' = "evaluated"
    /\ UNCHANGED <<initVars, solveVars, strong, basis>>

(* strong_residual(sim, solution) with the fields of the solution of sim.  *)
StrongResidual ==
    /\ pc = "ready"
    /\ strong' = Some(strong_residual([reynolds_number |-> Leaf("Re")],
                                      <<solution_fields["p"], solution_fields["u"]>>))
    /\ pc' = "evaluated"
    /\ UNCHANGED <<initVars, solveVars, residual, basis>>

FormNext ==
    \/ WeakFormResidual
    \/ StrongResidual

SpecForm == FormInit /\ [][FormNext]_vars

(***************************************************************************)
(* The test functions: one basis function per component and node.          *)
(***************************************************************************)
Tests(m) == {"p", "u1", "u2"} \X Nodes(m)
PsiP(m, t) ==
    [x \in Nodes(m) |-> <<IF t[1] = "p" /\ t[2] = x THEN R(1) ELSE R(0)>>]
PsiU(m, t) ==
    [x \in Nodes(m) |->
        <<IF t[1] = "u1" /\ t[2] = x THEN R(1) ELSE R(0),
          IF t[1] = "u2" /\ t[2] = x THEN R(1) ELSE R(0)>>]
TestEnv(sol, Re, t) ==
    Env(sol, Re, PsiP(sol.space.mesh, t), PsiU(sol.space.mesh, t))

(***************************************************************************)
(* nullspace() on an instance whose solution holds any nodal values.       *)
(***************************************************************************)
NullspaceMeshes == {UnitMesh2, WideMesh2}

NullspaceInit ==
    /\ pc = "ready"
    /\ call \in [reynolds_number : ReynoldsNumbers,
                 taylor_hood_pressure_element_degree : OptionOf(Degrees),
                 kwargs : {Kwargs(None, Some(m), None) : m \in NullspaceMeshes}]
    /\ kwargs = Constructed(call).kwargs
    /\ mesh = Constructed(call).mesh
    /\ element = Constructed(call).element
    /\ reynolds_number = Constructed(call).reynolds_number
    /\ base_kwargs = Constructed(call).base_kwargs
    /\ \E p \in ScalarFields(Get(call.kwargs.mesh), UValues),
          u \in VectorFields(Get(call.kwargs.mesh), UValues) :
          solution = Some(WithValues(Get(Constructed(call).solution), p, u))
    /\ base_solves = 0 /\ solved = None /\ mean_pressure = None /\ returned = None
    /\ residual = None /\ strong = None /\ basis = None

Nullspace ==
    /\ pc = "ready"
    /\ basis' = Some(nullspace(Get(solution)))
    /\ pc' = "evaluated"
    /\ UNCHANGED <<initVars, solveVars, residual, strong>>

NullspaceNext == Nullspace

SpecNullspace == NullspaceInit /\ [][NullspaceNext]_vars

(***************************************************************************)
(* Helpers of the properties.                                              *)
(***************************************************************************)
RECURSIVE SubTerms(_)
SubTerms(e) ==
    {e} \cup UNION {SubTerms(e.args[i]) : i \in 1..Len(e.args)}
FormTerms(form) == UNION {SubTerms(form[k].integrand) : k \in 1..Len(form)}
Sol == Get(solution)
ReValue == Get(reynolds_number)
TheMesh == Sol.space.mesh
(* The integral over the domain of a scalar expression, tested with t.     *)
IntDx(e, t) == assemble(Integral(e, "dx"), TestEnv(Sol, ReValue, t))
(* 2/Re as a number.                                                       *)
TwoOverRe == RDiv(R(2), ReValue)

(* C2: the assembled weak-form residual is, for every test function, the   *)
(* integral of psi_p*div(u) plus the integral of psi_u.(grad(u)u) minus    *)
(* the integral of div(psi_u)*p plus 2/Re times the integral of            *)
(* inner(sym(grad(psi_u)), sym(grad(u))); the form has exactly one inner   *)
(* product, and both of its arguments are symmetrized gradients.           *)
C2_WeakFormIsSumOfTerms ==
    IsSome(residual) =>
        /\ \A t \in Tests(TheMesh) :
              assemble(Get(residual), TestEnv(Sol, ReValue, t)) =
                  RAdd(RSub(RAdd(IntDx(Mul(Leaf("psi_p"), div(Leaf("u"))), t),
                                 IntDx(dot(Leaf("psi_u"), Mul(grad(Leaf("u")), Leaf("u"))), t)),
                            IntDx(Mul(div(Leaf("psi_u")), Leaf("p")), t)),
                       RMul(TwoOverRe,
                            IntDx(inner(sym(grad(Leaf("psi_u"))), sym(grad(Leaf("u")))), t)))
        /\ Cardinality({n \in FormTerms(Get(residual)) : n.op = "inner"}) = 1
        /\ \A n \in FormTerms(Get(residual)) :
              n.op = "inner" =>
                  /\ n.args[1] = sym(grad(Leaf("psi_u")))
                  /\ n.args[2] = sym(grad(Leaf("u")))

C2_Witness ==
    /\ IsSome(residual)
    /\ ReValue = R(2)
    /\ \E t \in Tests(TheMesh) :
          /\ IntDx(dot(Leaf("psi_u"), Mul(grad(Leaf("u")), Leaf("u"))), t) # R(0)
          /\ IntDx(inner(sym(grad(Leaf("psi_u"))), sym(grad(Leaf("u")))), t) #
                IntDx(inner(grad(Leaf("psi_u")), grad(Leaf("u"))), t)

(* The fields of the solution at the nodes, and the pieces of the strong   *)
(* residual as numbers.                                                    *)
FieldValue(e) == Eval(e, FieldEnv(Sol))
StrongValue(e) ==
    Eval(e, Env(Sol, ReValue, ZeroScalar(TheMesh), ZeroVector(TheMesh)))

(* C4: strong_residual returns (r_p, r_u) with r_p = div(u) and            *)
(* r_u = grad(u)u + grad(p) - (2/Re) div(sym(grad(u))) at every node,      *)
(* p being the first and u the second entry of the solution pair.          *)
C4_StrongResidualFormula ==
    IsSome(strong) =>
        /\ Len(Get(strong)) = 2
        /\ \A k \in Nodes(TheMesh) :
              /\ StrongValue(Get(strong)[1])[k] = FieldValue(div(Leaf("u")))[k]
              /\ StrongValue(Get(strong)[2])[k] =
                    TSub(TAdd(TMatVec(FieldValue(grad(Leaf("u")))[k], Sol.u[k]),
                              FieldValue(grad(Leaf("p")))[k]),
                         TScale(TwoOverRe, FieldValue(div(sym(grad(Leaf("u")))))[k]))

C4_Witness ==
    /\ IsSome(strong)
    /\ ReValue = R(2)
    /\ \E k \in Nodes(TheMesh) :
          /\ FieldValue(grad(Leaf("p")))[k] # <<R(0), R(0)>>
          /\ StrongValue(Get(strong)[1])[k] # <<R(0)>>
    /\ \E k \in Nodes(TheMesh) :
          FieldValue(div(sym(grad(Leaf("u")))))[k] # <<R(0), R(0)>>

(* C9: for every test function, the integral of psi_p*r_p + psi_u.r_u      *)
(* over the domain equals the assembled weak-form residual.                *)
C9_WeakMatchesStrong ==
    IsSome(strong) =>
        \A t \in Tests(TheMesh) :
            IntDx(Add(Mul(Leaf("psi_p"), Get(strong)[1]),
                      dot(Leaf("psi_u"), Get(strong)[2])), t) =
                assemble(weak_form_residual, TestEnv(Sol, ReValue, t))

C9_Witness ==
    /\ IsSome(strong)
    /\ ReValue = R(2)
    /\ \E t \in Tests(TheMesh) :
          /\ IntDx(dot(Leaf("psi_u"), grad(Leaf("p"))), t) # R(0)
          /\ IntDx(dot(Leaf("psi_u"), div(sym(grad(Leaf("u"))))), t) # R(0)

(* C7: every integral of the weak-form residual, and of mass() and         *)
(* momentum() alone, is an integral over the interior of the domain (dx).  *)
C7_OnlyInteriorIntegrals ==
    IsSome(residual) =>
        /\ \A k \in 1..Len(Get(residual)) : Get(residual)[k].measure = "dx"
        /\ \A k \in 1..Len(mass) : mass[k].measure = "dx"
        /\ \A k \in 1..Len(momentum) : momentum[k].measure = "dx"
        /\ Len(Get(residual)) = Len(mass) + Len(momentum)

C7_Witness ==
    /\ IsSome(residual)
    /\ Len(Get(residual)) = 2

(* The null space a basis describes: a component with a constant basis may *)
(* hold any constant, a component given as a sub-space adds no direction.  *)
Component(sol, i) == IF i = 1 THEN sol.p ELSE sol.u
IsConstantField(f, m) == \A k \in Nodes(m) : f[k] = f[1]
IsZeroField(f, m) == \A k \in Nodes(m) : \A j \in 1..Len(f[k]) : f[k][j] = R(0)
InNullspace(b, sol) ==
    \A i \in 1..Len(b.bases) :
        IF b.bases[i].kind = "basis" /\ b.bases[i].constant
        THEN IsConstantField(Component(sol, i), sol.space.mesh)
        ELSE IsZeroField(Component(sol, i), sol.space.mesh)
NullspaceDimension(b) ==
    Cardinality({i \in 1..Len(b.bases) :
                    b.bases[i].kind = "basis" /\ b.bases[i].constant})

(* C3: the basis nullspace() returns spans exactly the solutions with a    *)
(* constant pressure and zero velocity: it has one direction, its constant *)
(* basis sits at the position of the scalar (pressure) element, the first  *)
(* of the mixed element, and the velocity entry is the velocity sub-space. *)
C3_NullspaceIsConstantPressure ==
    IsSome(basis) =>
        /\ NullspaceDimension(Get(basis)) = 1
        /\ InNullspace(Get(basis), Sol) <=>
              (IsConstantField(Sol.p, TheMesh) /\ IsZeroField(Sol.u, TheMesh))
        /\ Get(basis).space = Sol.space
        /\ \A i \in 1..Len(Get(basis).bases) :
              (Get(basis).bases[i].kind = "basis") <=>
                  (i = 1 /\ Sol.space.element[i].rank = 0)
        /\ Get(basis).bases[2].kind = "subspace"
        /\ Sol.space.element[Get(basis).bases[2].index].rank = 1

C3_Witness ==
    /\ IsSome(basis)
    /\ InNullspace(Get(basis), Sol)
    /\ Sol.p[1] # <<R(0)>>
    /\ Sol.space.element[1].degree = 2

(* The mean of a scalar field over the domain: its integral divided by the *)
(* measure of the domain.                                                  *)
DomainIntegral(f, m) == RMul(Weight(m), SumField(f, NumNodes(m)))
DomainMean(f, m) == RDiv(DomainIntegral(f, m), Measure(m))

(* C1: the pressure of the solution solve() returns has zero mean over the *)
(* domain, on every mesh.                                                  *)
C1_ReturnedPressureHasZeroMean ==
    pc = "returned" =>
        DomainMean(Get(returned).p, Get(returned).space.mesh) = R(0)

C8_UniformPressureShift ==
    pc \in {"l81", "returned"} =>
        /\ Get(solution).u = Get(solved).u
        /\ Get(solution).space = Get(solved).space
        /\ \A j, k \in Nodes(Get(solved).space.mesh) :
              RSub(Get(solution).p[j][1], Get(solved).p[j][1]) =
                  RSub(Get(solution).p[k][1], Get(solved).p[k][1])

C8_Witness ==
    /\ pc = "l81"
    /\ Get(solution).p # Get(solved).p
    /\ Get(solved).p[1] # Get(solved).p[2]
    /\ ~IsZeroField(Get(solved).u, Get(solved).space.mesh)

(* C5: built without a "solution" keyword, the solution lives on the given *)
(* mesh with the mixed element (P_d scalar, P_(d+1) vector), d being the   *)
(* degree passed, 1 by default; pressure first, velocity second.           *)
C5_TaylorHoodSpace ==
    (pc = "ready" /\ IsNone(call.kwargs.solution)) =>
        LET d == IF call.taylor_hood_pressure_element_degree = None THEN 1
                 ELSE call.taylor_hood_pressure_element_degree[1]
            V == Get(solution).space
        IN  /\ V.mesh = Get(call.kwargs.mesh)
            /\ Len(V.element) = 2
            /\ V.element[1] =
                  [family |-> "P", cell |-> ufl_cell(V.mesh), degree |-> d, rank |-> 0]
            /\ V.element[2] =
                  [family |-> "P", cell |-> ufl_cell(V.mesh), degree |-> d + 1, rank |-> 1]

C5_Witness ==
    /\ pc = "ready"
    /\ IsNone(call.kwargs.solution)
    /\ call.taylor_hood_pressure_element_degree = Some(2)
    /\ Get(solution).space.element[2].degree = 3

(* C10: with "solution" supplied the base constructor gets the keywords of *)
(* the call unchanged and nothing is built; without it and without "mesh"  *)
(* the constructor fails before reynolds_number is set and before the base *)
(* constructor runs; without it and with "mesh" the base constructor gets  *)
(* the keywords without "mesh" and with the new "solution".  The base      *)
(* constructor is called only after reynolds_number was set.               *)
C10_KeywordHandling ==
    LET c == call.kwargs
    IN  /\ (IsSome(c.solution) /\ pc = "ready") =>
              /\ base_kwargs = Some(c)
              /\ solution = c.solution
              /\ IsNone(element) /\ IsNone(mesh)
        /\ IsSome(c.solution) => pc # "KeyError"
        /\ (IsNone(c.solution) /\ IsNone(c.mesh)) =>
              /\ pc \in {"l26", "l28", "KeyError"}
              /\ IsNone(reynolds_number) /\ IsNone(base_kwargs) /\ IsNone(solution)
        /\ (IsNone(c.solution) /\ IsSome(c.mesh)) => pc # "KeyError"
        /\ (IsNone(c.solution) /\ IsSome(c.mesh) /\ pc = "ready") =>
              /\ IsSome(solution)
              /\ Get(solution).space.mesh = Get(c.mesh)
              /\ Get(base_kwargs) = [c EXCEPT !.mesh = None, !.solution = solution]
        /\ IsSome(base_kwargs) => IsSome(reynolds_number)
        /\ pc = "l42" => IsSome(reynolds_number) /\ IsNone(base_kwargs)
        /\ IsSome(reynolds_number) => reynolds_number = Some(call.reynolds_number)

C10_Witness ==
    /\ pc = "ready"
    /\ IsSome(call.kwargs.solution)
    /\ IsSome(call.kwargs.mesh)
    /\ IsSome(Get(base_kwargs).mesh)
    /\ call.taylor_hood_pressure_element_degree = Some(2)

====
